---- MODULE Spec2Model ----
(***************************************************************************)
(* Model of the Amp chat adapter (src/src/amp-chat-language-model.ts):     *)
(* the request builder (getArgs and its converters), the unary call        *)
(* (doGenerate), the streaming call (doStream and its TransformStream),    *)
(* the finish-reason mapping and the transport error mapping.              *)
(*                                                                         *)
(* JavaScript values are modelled as records; an absent (undefined)        *)
(* property is a field that is not in the record's DOMAIN.                 *)
(***************************************************************************)
EXTENDS Integers, Sequences, FiniteSets, TLC

VARIABLES
    self,          \* the model instance: [modelId, settings] (constructor)
    pc,            \* position of the call: idle / awaitGenerate / awaitStream / streaming / closed / done
    op,            \* which operation was called: none / generate / stream
    options,       \* the call options of the call in progress
    reply,         \* how the transport settled the request: none / resolved / rejected
    sent,          \* requests handed to the transport (postJsonToApi), in order
    outcome,       \* what the call gave its caller: pending / returned / threw
    isFirstChunk,  \* the flag of doStream's closure
    args,          \* the request body getArgs built for the call (local of the call)
    warnings,      \* the warning list getArgs built for the call (local of the call)
    received,      \* raw chunks the transform has been called with, in order
    emitted,       \* per received chunk, the events enqueued during that transform call
    output,        \* the readable side of the TransformStream: the events enqueued, in order
    invocations,   \* concurrent calls on one instance: call id -> the locals of that call
    factory,       \* the provider factory, the model it created and that model's stream
    agent          \* one call on the agent adapter: its locals, the execution and its stream

\* the variables of one call on the chat adapter
chatVars == <<self, pc, op, options, reply, sent, outcome, isFirstChunk, args, warnings,
              received, emitted, output>>

vars == <<chatVars, invocations, factory, agent>>

----------------------------------------------------------------------------
(* Bounds of the model *)

MaxMsgs == 1
MaxParts == 2
MaxChunks == 3
MaxTools == 2
MaxCalls == 2
MaxConcChunks == 2
MaxPromptMsgs == 5
MaxExec == 3

----------------------------------------------------------------------------
(* JavaScript helpers *)

EmptyObj == [x \in {} |-> x]

Has(obj, f) == f \in DOMAIN obj

\* the sequences over S of length at most n
SeqsUpTo(S, n) == UNION {[1..k -> S] : k \in 0..n}

RECURSIVE Flatten(_)
Flatten(ss) == IF Len(ss) = 0 THEN <<>> ELSE Head(ss) \o Flatten(Tail(ss))

\* Array.prototype.join('\n') on an array of strings
RECURSIVE JoinNL(_)
JoinNL(strs) ==
    IF Len(strs) = 0 THEN ""
    ELSE IF Len(strs) = 1 THEN strs[1]
    ELSE strs[1] \o "\n" \o JoinNL(Tail(strs))

\* JSON.stringify of a string value (strings of the model need no escaping)
JSONStringify(s) == "\"" \o s \o "\""

----------------------------------------------------------------------------
(* Request builder: convertToAmpMessages, convertToAmpTools,               *)
(* convertToolChoice, getArgs                                              *)

FileWarning == [type |-> "unsupported-feature", feature |-> "file attachments"]

\* `part.filename || 'unknown'`: an absent or empty filename reads as 'unknown'
FilenameOrUnknown(part) ==
    IF Has(part, "filename") /\ part.filename # "" THEN part.filename ELSE "unknown"

\* the callback of message.content.map in the 'user' case: the string returned
UserPartText(part) ==
    CASE part.type = "text" -> part.text
      [] part.type = "file" -> "[File: " \o FilenameOrUnknown(part) \o "]"
      [] OTHER -> ""

\* the callback of message.content.map in the 'user' case: the warnings pushed
UserPartWarnings(part) ==
    IF part.type = "file" THEN <<FileWarning>> ELSE <<>>

UserContent(content) == JoinNL([i \in 1..Len(content) |-> UserPartText(content[i])])

UserWarnings(content) ==
    Flatten([i \in 1..Len(content) |-> UserPartWarnings(content[i])])

\* the 'assistant' case: text parts only, newline-joined
AssistantContent(content) ==
    LET texts == SelectSeq(content, LAMBDA part : part.type = "text")
    IN JoinNL([i \in 1..Len(texts) |-> texts[i].text])

\* the 'assistant' case: one native tool call per tool-call part
AssistantToolCalls(content) ==
    LET calls == SelectSeq(content, LAMBDA part : part.type = "tool-call")
    IN [i \in 1..Len(calls) |->
          [id |-> calls[i].toolCallId,
           type |-> "function",
           function |-> [name |-> calls[i].toolName, arguments |-> calls[i].args]]]

\* faulty variant: the tool-call list is attached even when it is empty
AssistantMessage_AlwaysToolCalls(content) ==
    [role |-> "assistant", content |-> AssistantContent(content),
     tool_calls |-> AssistantToolCalls(content)]

\* `...(toolCalls.length > 0 && { tool_calls: toolCalls })`
AssistantMessage(content) ==
    LET toolCalls == AssistantToolCalls(content)
        base == [role |-> "assistant", content |-> AssistantContent(content)]
    IN IF Len(toolCalls) > 0 THEN [tool_calls |-> toolCalls] @@ base ELSE base

\* the 'tool' case: only message.content[0] is read
ToolMessage(content) ==
    LET name == IF Len(content) > 0 /\ Has(content[1], "toolName") /\ content[1].toolName # ""
                THEN content[1].toolName ELSE "unknown"
        result == IF Len(content) > 0 /\ Has(content[1], "result")
                  THEN content[1].result ELSE ""
    IN [role |-> "function", name |-> name, content |-> JSONStringify(result)]

KnownRoles == {"system", "user", "assistant", "tool"}

UnsupportedRoleError(role) ==
    [name |-> "Error", message |-> "Unsupported message role: " \o role]

\* the callback of prompt.map: the native message for one message of the prompt.
\* A system message's `content` is a string and not a list of parts: the prompt
\* of the model holds it in the field `text`.
ConvertMessage(message) ==
    CASE message.role = "system" -> [role |-> "system", content |-> message.text]
      [] message.role = "user" -> [role |-> "user", content |-> UserContent(message.content)]
      [] message.role = "assistant" -> AssistantMessage(message.content)
      [] message.role = "tool" -> ToolMessage(message.content)

\* the warnings the callback of prompt.map pushes for one message
MessageWarnings(message) ==
    IF message.role = "user" THEN UserWarnings(message.content) ELSE <<>>

\* faulty variant: a message of unknown role is left out instead of throwing
RECURSIVE convertToAmpMessages_SkipUnknown(_)
convertToAmpMessages_SkipUnknown(prompt) ==
    IF Len(prompt) = 0 THEN [threw |-> FALSE, messages |-> <<>>, warnings |-> <<>>]
    ELSE LET rest == convertToAmpMessages_SkipUnknown(Tail(prompt))
         IN IF Head(prompt).role \notin KnownRoles THEN rest
            ELSE [threw |-> FALSE,
                  messages |-> <<ConvertMessage(Head(prompt))>> \o rest.messages,
                  warnings |-> MessageWarnings(Head(prompt)) \o rest.warnings]

\* prompt.map runs over the messages in order and stops at the first throw;
\* the warnings array is the caller's, filled as a side effect
RECURSIVE convertToAmpMessages(_)
convertToAmpMessages(prompt) ==
    IF Len(prompt) = 0 THEN [threw |-> FALSE, messages |-> <<>>, warnings |-> <<>>]
    ELSE IF Head(prompt).role \notin KnownRoles
         THEN [threw |-> TRUE, error |-> UnsupportedRoleError(Head(prompt).role)]
    ELSE LET rest == convertToAmpMessages(Tail(prompt))
         IN IF rest.threw THEN rest
            ELSE [threw |-> FALSE,
                  messages |-> <<ConvertMessage(Head(prompt))>> \o rest.messages,
                  warnings |-> MessageWarnings(Head(prompt)) \o rest.warnings]

\* a body property that may hold values of different JavaScript types carries
\* its type: an array, or a boolean
JSArray(items) == [js |-> "array", items |-> items]
JSBool(b) == [js |-> "boolean", v |-> b]

convertToAmpTools(tools) ==
    [i \in 1..Len(tools) |->
        [type |-> "function",
         function |-> [f \in DOMAIN tools[i] \cap {"name", "description", "parameters"}
                          |-> tools[i][f]]]]

\* faulty variant: required is handed to the backend as it is
convertToolChoice_KeepRequired(opts) ==
    IF ~Has(opts, "toolChoice") THEN EmptyObj
    ELSE LET toolChoice == opts.toolChoice
         IN IF toolChoice.js = "string" /\ toolChoice.v \in {"auto", "none", "required"}
            THEN [tool_choice |-> toolChoice.v]
            ELSE IF toolChoice.js = "object" /\ Has(toolChoice, "type")
                    /\ toolChoice.type = "tool" /\ Has(toolChoice, "toolName")
                 THEN [tool_choice |-> toolChoice.toolName]
            ELSE EmptyObj

\* a tool choice is [js |-> "string", v |-> s] or [js |-> "object", type |-> t, ...];
\* the result is the fragment of the body holding tool_choice, empty when undefined
convertToolChoice(opts) ==
    IF ~Has(opts, "toolChoice") THEN EmptyObj
    ELSE LET toolChoice == opts.toolChoice
         IN IF toolChoice.js = "string" /\ toolChoice.v = "" THEN EmptyObj
            ELSE IF toolChoice.js = "string" /\ toolChoice.v \in {"auto", "none"}
                 THEN [tool_choice |-> toolChoice.v]
            ELSE IF toolChoice.js = "string" /\ toolChoice.v = "required"
                 THEN [tool_choice |-> "auto"]
            ELSE IF toolChoice.js = "object" /\ Has(toolChoice, "type")
                    /\ toolChoice.type = "tool"
                 THEN IF Has(toolChoice, "toolName")
                      THEN [tool_choice |-> toolChoice.toolName] ELSE EmptyObj
            ELSE EmptyObj

\* faulty variant: `a || b`, which passes over a call-level 0
Nullish_Falsy(field, a, fa, b, fb) ==
    IF Has(a, fa) /\ a[fa] # 0 THEN (field :> a[fa])
    ELSE IF Has(b, fb) THEN (field :> b[fb])
    ELSE EmptyObj

\* `a ?? b` written into body field `field`: the field is left out when both are absent
Nullish(field, a, fa, b, fb) ==
    IF Has(a, fa) THEN (field :> a[fa])
    ELSE IF Has(b, fb) THEN (field :> b[fb])
    ELSE EmptyObj

\* getArgs: the body as it is serialised (undefined properties are left out);
\* the spread of settings.ampOptions comes last and overrides earlier keys
getArgs(inst, opts) ==
    LET conv == convertToAmpMessages(opts.prompt)
        settings == inst.settings
        model == IF Has(settings, "model") /\ settings.model # ""
                 THEN settings.model ELSE inst.modelId
        tools == IF Has(opts, "tools") THEN [tools |-> JSArray(convertToAmpTools(opts.tools))]
                 ELSE EmptyObj
        stop == IF Has(opts, "stopSequences") THEN [stop |-> opts.stopSequences]
                ELSE EmptyObj
        ampOptions == IF Has(settings, "ampOptions") THEN settings.ampOptions ELSE EmptyObj
        base == [model |-> model, messages |-> conv.messages]
                  @@ Nullish("temperature", opts, "temperature", settings, "temperature")
                  @@ Nullish("max_tokens", opts, "maxOutputTokens", settings, "maxTokens")
                  @@ stop @@ tools @@ convertToolChoice(opts)
    IN IF conv.threw THEN conv
       ELSE [threw |-> FALSE, args |-> ampOptions @@ base, warnings |-> conv.warnings]

----------------------------------------------------------------------------
(* Response mapper: mapFinishReason, convertFromAmpContent, usage          *)

\* faulty variant: the legacy spelling function_call is not recognised
mapFinishReason_NoFunctionCall(reason) ==
    CASE reason = "stop" -> "stop"
      [] reason = "length" -> "length"
      [] reason = "tool_calls" -> "tool-calls"
      [] reason = "content_filter" -> "content-filter"
      [] OTHER -> "other"

mapFinishReason(reason) ==
    CASE reason = "stop" -> "stop"
      [] reason = "length" -> "length"
      [] reason = "function_call" -> "tool-calls"
      [] reason = "tool_calls" -> "tool-calls"
      [] reason = "content_filter" -> "content-filter"
      [] OTHER -> "other"

ToolCallPart(toolCall) ==
    [type |-> "tool-call", toolCallType |-> "function",
     toolName |-> toolCall.function.name, args |-> toolCall.function.arguments]
      @@ (IF Has(toolCall, "id") THEN [toolCallId |-> toolCall.id] ELSE EmptyObj)

\* faulty variant: the tool calls are pushed before the text
convertFromAmpContent_CallsFirst(message) ==
    LET text == IF Has(message, "content") /\ message.content # ""
                THEN <<[type |-> "text", text |-> message.content]>> ELSE <<>>
        calls == IF Has(message, "tool_calls")
                 THEN [i \in 1..Len(message.tool_calls) |-> ToolCallPart(message.tool_calls[i])]
                 ELSE <<>>
    IN calls \o text

convertFromAmpContent(message) ==
    LET text == IF Has(message, "content") /\ message.content # ""
                THEN <<[type |-> "text", text |-> message.content]>> ELSE <<>>
        calls == IF Has(message, "tool_calls")
                 THEN [i \in 1..Len(message.tool_calls) |-> ToolCallPart(message.tool_calls[i])]
                 ELSE <<>>
    IN text \o calls

MapUsage(usage) ==
    [inputTokens |-> usage.prompt_tokens,
     outputTokens |-> usage.completion_tokens,
     totalTokens |-> usage.total_tokens]

----------------------------------------------------------------------------
(* Error mapping: handleError                                              *)

\* Headers.get: null when the header is absent; a nullable string is a
\* sequence of length at most one
HeaderGet(headers, name) == IF Has(headers, name) THEN <<headers[name]>> ELSE <<>>

IsResponse(error) == error.class = "Response"

\* faulty variant: the retryable range starts above 500
handleError_Above500(error) ==
    IF IsResponse(error)
    THEN IF error.status = 429
         THEN [class |-> "Error", name |-> "TooManyRequestsError", cause |-> error,
               retryAfter |-> HeaderGet(error.headers, "retry-after")]
         ELSE [class |-> "Error", name |-> "APICallError", statusCode |-> error.status,
               statusText |-> error.statusText, cause |-> error,
               isRetryable |-> (error.status > 500 /\ error.status < 600)]
    ELSE error

\* handleError never returns: the value is the error it throws
handleError(error) ==
    IF IsResponse(error)
    THEN IF error.status = 429
         THEN [class |-> "Error", name |-> "TooManyRequestsError", cause |-> error,
               retryAfter |-> HeaderGet(error.headers, "retry-after")]
         ELSE [class |-> "Error", name |-> "APICallError", statusCode |-> error.status,
               statusText |-> error.statusText, cause |-> error,
               isRetryable |-> (error.status >= 500 /\ error.status < 600)]
    ELSE error

InvalidResponseDataError(data, message) ==
    [class |-> "Error", name |-> "InvalidResponseDataError", data |-> data, message |-> message]

TypeError == [class |-> "Error", name |-> "TypeError"]

\* faulty variant: an empty choice array is answered with an empty result
GenerateBody_DefaultOnEmpty(data, builtArgs, builtWarnings) ==
    IF ~Has(data, "usage")
    THEN [threw |-> TRUE, error |-> TypeError]
    ELSE [threw |-> FALSE,
          value |-> [content |-> IF Len(data.choices) = 0 THEN <<>>
                                 ELSE convertFromAmpContent(data.choices[1].message),
                     finishReason |-> IF Len(data.choices) = 0 THEN "other"
                                      ELSE mapFinishReason(data.choices[1].finish_reason),
                     usage |-> MapUsage(data.usage),
                     request |-> [body |-> builtArgs],
                     response |-> [body |-> data],
                     warnings |-> builtWarnings]]

\* the body of doGenerate's try block after the await: what it returns or throws
GenerateBody(data, builtArgs, builtWarnings) ==
    IF Len(data.choices) = 0
    THEN [threw |-> TRUE, error |-> InvalidResponseDataError(data, "No choices in response")]
    ELSE IF ~Has(data, "usage")
    THEN [threw |-> TRUE, error |-> TypeError]
    ELSE [threw |-> FALSE,
          value |-> [content |-> convertFromAmpContent(data.choices[1].message),
                     finishReason |-> mapFinishReason(data.choices[1].finish_reason),
                     usage |-> MapUsage(data.usage),
                     request |-> [body |-> builtArgs],
                     response |-> [body |-> data],
                     warnings |-> builtWarnings]]

----------------------------------------------------------------------------
(* Raw chunks of the event stream and JSON.parse on them                   *)

DoneChunk == "[DONE]"
NotJsonChunk == "not json"
TruncatedChunk == "{\"choices\":[{\"delta\":"
NullChunk == "null"
TextChunk == "{\"choices\":[{\"delta\":{\"content\":\"Hi\"}}]}"
EmptyTextChunk == "{\"choices\":[{\"delta\":{\"content\":\"\"}}]}"
StopUsageChunk == "{\"choices\":[{\"delta\":{},\"finish_reason\":\"stop\"}],\"usage\":{\"prompt_tokens\":3,\"completion_tokens\":1,\"total_tokens\":4}}"
TextFinishChunk == "{\"choices\":[{\"delta\":{\"content\":\"Hi\"},\"finish_reason\":\"length\"}]}"
NoDeltaFinishChunk == "{\"choices\":[{\"finish_reason\":\"stop\"}]}"
ToolCallsChunk == "{\"choices\":[{\"delta\":{\"tool_calls\":[{\"id\":\"c1\",\"function\":{\"name\":\"f\",\"arguments\":\"{}\"}},{\"id\":\"c2\",\"function\":{\"name\":\"g\"}}]}}]}"
FullChunk == "{\"choices\":[{\"delta\":{\"content\":\"A\",\"tool_calls\":[{\"id\":\"c1\",\"function\":{\"name\":\"f\",\"arguments\":\"{}\"}},{\"id\":\"c2\",\"function\":{\"name\":\"g\",\"arguments\":\"{}\"}}]},\"finish_reason\":\"tool_calls\"}]}"
NullToolCallChunk == "{\"choices\":[{\"delta\":{\"content\":\"x\",\"tool_calls\":[null]}}]}"
FinishChunk(r) == "{\"choices\":[{\"delta\":{},\"finish_reason\":\"" \o r \o "\"}]}"

\* finish reasons of the generated finish chunks (the other rows of the
\* mapping arrive in StopUsageChunk, TextFinishChunk and FullChunk)
StreamReasons == {"content_filter", "function_call", "STOP", ""}

MalformedChunks == {NotJsonChunk, TruncatedChunk}

Chunks ==
    {DoneChunk, NullChunk, TextChunk, EmptyTextChunk, StopUsageChunk, TextFinishChunk,
     NoDeltaFinishChunk, ToolCallsChunk, FullChunk, NullToolCallChunk}
      \cup MalformedChunks \cup {FinishChunk(r) : r \in StreamReasons}

\* JSON null, as a value and as an element of an array
JSNull == [null |-> TRUE]
IsNull(v) == Has(v, "null")

CallC1 == [id |-> "c1", function |-> [name |-> "f", arguments |-> "{}"]]
CallC2 == [id |-> "c2", function |-> [name |-> "g", arguments |-> "{}"]]
CallC2NoArgs == [id |-> "c2", function |-> [name |-> "g"]]

Parsed(v) == [threw |-> FALSE, value |-> v]

\* JSON.parse on the chunks of the model: the value, or a SyntaxError
JSONParse(chunk) ==
    CASE chunk = NullChunk -> Parsed(JSNull)
      [] chunk = TextChunk -> Parsed([choices |-> <<[delta |-> [content |-> "Hi"]]>>])
      [] chunk = EmptyTextChunk -> Parsed([choices |-> <<[delta |-> [content |-> ""]]>>])
      [] chunk = StopUsageChunk ->
           Parsed([choices |-> <<[delta |-> EmptyObj, finish_reason |-> "stop"]>>,
                   usage |-> [prompt_tokens |-> 3, completion_tokens |-> 1,
                              total_tokens |-> 4]])
      [] chunk = TextFinishChunk ->
           Parsed([choices |-> <<[delta |-> [content |-> "Hi"], finish_reason |-> "length"]>>])
      [] chunk = NoDeltaFinishChunk -> Parsed([choices |-> <<[finish_reason |-> "stop"]>>])
      [] chunk = ToolCallsChunk ->
           Parsed([choices |-> <<[delta |-> [tool_calls |-> <<CallC1, CallC2NoArgs>>]]>>])
      [] chunk = FullChunk ->
           Parsed([choices |-> <<[delta |-> [content |-> "A",
                                             tool_calls |-> <<CallC1, CallC2>>],
                                  finish_reason |-> "tool_calls"]>>])
      [] chunk = NullToolCallChunk ->
           Parsed([choices |-> <<[delta |-> [content |-> "x", tool_calls |-> <<JSNull>>]]>>])
      [] \E r \in StreamReasons : chunk = FinishChunk(r) ->
           Parsed([choices |-> <<[delta |-> EmptyObj,
                                  finish_reason |->
                                      CHOOSE r \in StreamReasons : chunk = FinishChunk(r)]>>])
      [] OTHER -> [threw |-> TRUE]

----------------------------------------------------------------------------
(* Stream mapper: the transform callback of doStream                       *)

StreamStartEvent(w) == [type |-> "stream-start", warnings |-> w]

TextEvent(text) == [type |-> "text", text |-> text]

ToolCallEvent(toolCall) ==
    [type |-> "tool-call", toolCallType |-> "function",
     toolName |-> toolCall.function.name, args |-> toolCall.function.arguments]
      @@ (IF Has(toolCall, "id") THEN [toolCallId |-> toolCall.id] ELSE EmptyObj)

FinishEvent(data) ==
    [type |-> "finish", finishReason |-> mapFinishReason(data.choices[1].finish_reason)]
      @@ (IF Has(data, "usage") THEN [usage |-> MapUsage(data.usage)] ELSE EmptyObj)

ErrorEvent(chunk) ==
    [type |-> "error",
     error |-> InvalidResponseDataError(chunk, "Failed to parse stream chunk")]

\* `toolCall.function?.name && toolCall.function?.arguments`
IsCompleteToolCall(toolCall) ==
    /\ Has(toolCall, "function")
    /\ Has(toolCall.function, "name") /\ toolCall.function.name # ""
    /\ Has(toolCall.function, "arguments") /\ toolCall.function.arguments # ""

\* the loop over delta.tool_calls: the events enqueued, and whether reading
\* an entry threw (a null entry has no property `function`)
RECURSIVE ToolCallLoop(_)
ToolCallLoop(toolCalls) ==
    IF Len(toolCalls) = 0 THEN [threw |-> FALSE, events |-> <<>>]
    ELSE IF IsNull(Head(toolCalls)) THEN [threw |-> TRUE, events |-> <<>>]
    ELSE LET rest == ToolCallLoop(Tail(toolCalls))
             here == IF IsCompleteToolCall(Head(toolCalls))
                     THEN <<ToolCallEvent(Head(toolCalls))>> ELSE <<>>
         IN [threw |-> rest.threw, events |-> here \o rest.events]

\* `data.choices?.[0]?.delta` is truthy
HasDelta(data) ==
    /\ Has(data, "choices") /\ Len(data.choices) > 0
    /\ Has(data.choices[1], "delta") /\ ~IsNull(data.choices[1].delta)

\* `data.choices?.[0]?.finish_reason` is truthy
HasFinishReason(data) ==
    /\ Has(data, "choices") /\ Len(data.choices) > 0
    /\ Has(data.choices[1], "finish_reason") /\ data.choices[1].finish_reason # ""

\* faulty variant: the finish marker is handled before the delta
TranslateChunk_FinishFirst(chunk) ==
    LET parsed == JSONParse(chunk)
    IN IF parsed.threw THEN <<ErrorEvent(chunk)>>
       ELSE LET data == parsed.value
            IN IF IsNull(data) THEN <<ErrorEvent(chunk)>>
               ELSE IF ~HasDelta(data) THEN <<>>
               ELSE LET delta == data.choices[1].delta
                        text == IF Has(delta, "content") /\ delta.content # ""
                                THEN <<TextEvent(delta.content)>> ELSE <<>>
                        loop == IF Has(delta, "tool_calls")
                                THEN ToolCallLoop(delta.tool_calls)
                                ELSE [threw |-> FALSE, events |-> <<>>]
                        finish == IF HasFinishReason(data) THEN <<FinishEvent(data)>>
                                  ELSE <<>>
                    IN IF loop.threw THEN text \o loop.events \o <<ErrorEvent(chunk)>>
                       ELSE finish \o text \o loop.events

\* faulty variant: the catch block swallows the failure instead of reporting it
TranslateChunk_Swallow(chunk) ==
    LET parsed == JSONParse(chunk)
    IN IF parsed.threw \/ IsNull(parsed.value) \/ ~HasDelta(parsed.value) THEN <<>>
       ELSE LET data == parsed.value
                delta == data.choices[1].delta
                text == IF Has(delta, "content") /\ delta.content # ""
                        THEN <<TextEvent(delta.content)>> ELSE <<>>
                loop == IF Has(delta, "tool_calls")
                        THEN ToolCallLoop(delta.tool_calls)
                        ELSE [threw |-> FALSE, events |-> <<>>]
                finish == IF HasFinishReason(data) THEN <<FinishEvent(data)>> ELSE <<>>
            IN IF loop.threw THEN text \o loop.events
               ELSE text \o loop.events \o finish

\* the try/catch of the transform callback: the events enqueued for one chunk.
\* What was enqueued before a throw stays enqueued; the catch adds the error.
TranslateChunk(chunk) ==
    LET parsed == JSONParse(chunk)
    IN IF parsed.threw THEN <<ErrorEvent(chunk)>>
       ELSE LET data == parsed.value
            IN IF IsNull(data) THEN <<ErrorEvent(chunk)>>
               ELSE IF ~HasDelta(data) THEN <<>>
               ELSE LET delta == data.choices[1].delta
                        text == IF Has(delta, "content") /\ delta.content # ""
                                THEN <<TextEvent(delta.content)>> ELSE <<>>
                        loop == IF Has(delta, "tool_calls")
                                THEN ToolCallLoop(delta.tool_calls)
                                ELSE [threw |-> FALSE, events |-> <<>>]
                        finish == IF HasFinishReason(data) THEN <<FinishEvent(data)>>
                                  ELSE <<>>
                    IN IF loop.threw THEN text \o loop.events \o <<ErrorEvent(chunk)>>
                       ELSE text \o loop.events \o finish

\* faulty variant: stream-start goes out with every chunk
TransformOutput_StartAlways(chunk, first, w) ==
    <<StreamStartEvent(w)>> \o (IF chunk = DoneChunk THEN <<>> ELSE TranslateChunk(chunk))

\* faulty variant: stream-start is enqueued after the chunk has been translated
TransformOutput_StartAfter(chunk, first, w) ==
    (IF chunk = DoneChunk THEN <<>> ELSE TranslateChunk(chunk))
      \o (IF first THEN <<StreamStartEvent(w)>> ELSE <<>>)

\* faulty variant: the sentinel is not singled out and goes to JSON.parse
TransformOutput_ParseDone(chunk, first, w) ==
    (IF first THEN <<StreamStartEvent(w)>> ELSE <<>>) \o TranslateChunk(chunk)

\* the transform callback: the events enqueued when `chunk` arrives
TransformOutput(chunk, first, w) ==
    (IF first THEN <<StreamStartEvent(w)>> ELSE <<>>)
      \o (IF chunk = DoneChunk THEN <<>> ELSE TranslateChunk(chunk))

----------------------------------------------------------------------------
(* Inputs: prompts, call options, model instances, transport outcomes      *)

TextA == [type |-> "text", text |-> "a"]
FileNamed == [type |-> "file", filename |-> "f.txt"]
FileUnnamed == [type |-> "file"]
ToolCall1 == [type |-> "tool-call", toolCallId |-> "c1", toolName |-> "f", args |-> "{}"]
ToolCall2 == [type |-> "tool-call", toolCallId |-> "c2", toolName |-> "g", args |-> "[]"]
ToolResult1 == [type |-> "tool-result", toolCallId |-> "c1", toolName |-> "f", result |-> "ok"]
ToolResult2 == [type |-> "tool-result", toolCallId |-> "c2", toolName |-> "g", result |-> "no"]

Parts == {TextA, FileNamed, FileUnnamed, ToolCall1, ToolCall2}
ToolResults == {ToolResult1, ToolResult2}

SystemMsg == [role |-> "system", text |-> "be brief"]
UserMsg(content) == [role |-> "user", content |-> content]
AssistantMsg(content) == [role |-> "assistant", content |-> content]
ToolMsg(content) == [role |-> "tool", content |-> content]
\* a message whose role the adapter does not know
DeveloperMsg == [role |-> "developer", text |-> "x"]

Messages ==
    {SystemMsg, DeveloperMsg}
      \cup {UserMsg(c) : c \in SeqsUpTo(Parts, MaxParts)}
      \cup {AssistantMsg(c) : c \in SeqsUpTo(Parts, MaxParts)}
      \cup {ToolMsg(c) : c \in SeqsUpTo(ToolResults, MaxParts)}

Prompts == SeqsUpTo(Messages, MaxMsgs)

\* the call options the request builder is checked on
BuildOptions == {[prompt |-> p] : p \in Prompts}

\* the call options the whole call (transport, mapping, stream) is checked on
SampleOptions ==
    {[prompt |-> <<SystemMsg, UserMsg(<<TextA>>)>>],
     [prompt |-> <<UserMsg(<<TextA, FileNamed>>), AssistantMsg(<<TextA, ToolCall1>>)>>],
     [prompt |-> <<UserMsg(<<FileUnnamed>>), DeveloperMsg>>],
     [prompt |-> <<DeveloperMsg, UserMsg(<<TextA>>)>>],
     [prompt |-> <<SystemMsg, DeveloperMsg, UserMsg(<<FileNamed>>)>>]}

Instances ==
    {[modelId |-> "amp-chat", settings |-> EmptyObj, baseURL |-> "https://api.ampcode.com"]}

\* tool definitions a call may supply
ToolF == [name |-> "f", description |-> "does f", parameters |-> [type |-> "object"]]
ToolG == [name |-> "g", parameters |-> [type |-> "array"]]
ToolDefs == {ToolF, ToolG}

\* tool choices: the plain strings, the object naming one tool, and values
\* the converter does not know
ToolChoiceString(v) == [js |-> "string", v |-> v]
ToolChoiceTool(name) == [js |-> "object", type |-> "tool", toolName |-> name]
ToolChoices ==
    {ToolChoiceString(v) : v \in {"auto", "none", "required", "any"}}
      \cup {ToolChoiceTool("f"), ToolChoiceTool("auto"), [js |-> "object", type |-> "auto"]}

\* an optional property: left out, or present with one of the values
Optional(field, values) == {EmptyObj} \cup {(field :> v) : v \in values}

\* the call options the option pass-through is checked on (one fixed prompt)
ArgsOptions ==
    {[prompt |-> <<UserMsg(<<TextA>>)>>] @@ t @@ m @@ st @@ tl @@ tc :
        t \in Optional("temperature", {0, 2}),
        m \in Optional("maxOutputTokens", {0, 50}),
        st \in Optional("stopSequences", {<<>>, <<"END", "STOP">>}),
        tl \in Optional("tools", SeqsUpTo(ToolDefs, MaxTools)),
        tc \in Optional("toolChoice", ToolChoices)}

\* the per-model settings the option pass-through is checked on
AmpOptionsValues ==
    {[mode |-> "code"], [context |-> "repo", tools |-> JSBool(TRUE)], [tools |-> JSBool(FALSE)]}

ArgsInstances ==
    {[modelId |-> "amp-chat", baseURL |-> "https://api.ampcode.com",
      settings |-> t @@ m @@ a] :
        t \in Optional("temperature", {0, 1}),
        m \in Optional("maxTokens", {0, 100}),
        a \in Optional("ampOptions", AmpOptionsValues)}

\* native finish reasons the backend may send
FinishReasons ==
    {"stop", "length", "function_call", "tool_calls", "content_filter",
     "STOP", "Tool_Calls", "", "eos"}

NativeCall1 == [id |-> "c1", type |-> "function", function |-> [name |-> "f", arguments |-> "{}"]]
NativeCall2 == [id |-> "c2", type |-> "function", function |-> [name |-> "g", arguments |-> "[]"]]

NativeMessages ==
    {[role |-> "assistant", content |-> "Hello"],
     [role |-> "assistant", content |-> "", tool_calls |-> <<NativeCall2, NativeCall1>>],
     [role |-> "assistant", content |-> "Hi", tool_calls |-> <<NativeCall1>>],
     [role |-> "assistant", tool_calls |-> <<NativeCall1>>],
     [role |-> "assistant", content |-> "Hi", tool_calls |-> <<NativeCall2, NativeCall1>>]}

NativeUsage == [prompt_tokens |-> 3, completion_tokens |-> 1, total_tokens |-> 4]

\* parsed bodies a successful unary transport call may resolve with
NativeResponses ==
    {[choices |-> <<[message |-> m, finish_reason |-> r, index |-> 0]>>,
      usage |-> NativeUsage, model |-> "amp-chat"] : m \in NativeMessages, r \in FinishReasons}
      \cup {[choices |-> <<>>, usage |-> NativeUsage, model |-> "amp-chat"],
            [choices |-> <<>>, model |-> "amp-chat"],
            [choices |-> <<[message |-> [role |-> "assistant", content |-> "Hello"],
                            finish_reason |-> "stop", index |-> 0]>>,
             model |-> "amp-chat"]}

Statuses == {400, 404, 429, 499, 500, 503, 599, 600}

HeaderSets == {EmptyObj, [x \in {"retry-after"} |-> "30"]}

\* what a failed transport call may reject with: an HTTP response, or an
\* error that is no response (network failure)
HttpFailures ==
    {[class |-> "Response", status |-> st, statusText |-> "status text", headers |-> h] :
        st \in Statuses, h \in HeaderSets}

NetworkFailure == [class |-> "Error", name |-> "TypeError", message |-> "fetch failed"]

TransportFailures == HttpFailures \cup {NetworkFailure}

----------------------------------------------------------------------------
(* The calls *)

Pending == [kind |-> "pending"]
Returned(v) == [kind |-> "returned", value |-> v]
Threw(e) == [kind |-> "threw", error |-> e]

ChatUrl(inst) == inst.baseURL \o "/v1/chat/completions"

Init ==
    /\ self \in Instances
    /\ pc = "idle"
    /\ op = "none"
    /\ options = EmptyObj
    /\ reply = [kind |-> "none"]
    /\ sent = <<>>
    /\ outcome = Pending
    /\ isFirstChunk = FALSE
    /\ args = EmptyObj
    /\ warnings = <<>>
    /\ received = <<>>
    /\ emitted = <<>>
    /\ output = <<>>
    /\ invocations = <<>>
    /\ factory = [pc |-> "none"]
    /\ agent = [pc |-> "none"]

\* doGenerate up to its await: getArgs, then the request is handed to the transport
DoGenerate(o) ==
    /\ pc = "idle"
    /\ op' = "generate"
    /\ options' = o
    /\ LET built == getArgs(self, o)
       IN IF built.threw
          THEN /\ outcome' = Threw(built.error)
               /\ pc' = "done"
               /\ UNCHANGED <<sent, args, warnings>>
          ELSE /\ args' = built.args
               /\ warnings' = built.warnings
               /\ sent' = Append(sent, [url |-> ChatUrl(self), body |-> built.args])
               /\ pc' = "awaitGenerate"
               /\ UNCHANGED outcome
    /\ UNCHANGED <<self, reply, isFirstChunk, received, emitted, output, invocations, factory, agent>>

\* the transport resolves the unary call with a parsed body
GenerateResponse(data) ==
    /\ pc = "awaitGenerate"
    /\ reply' = [kind |-> "resolved", value |-> data]
    /\ LET r == GenerateBody(data, args, warnings)
       IN outcome' = IF r.threw THEN Threw(handleError(r.error)) ELSE Returned(r.value)
    /\ pc' = "done"
    /\ UNCHANGED <<self, op, options, sent, isFirstChunk, args, warnings, received, emitted,
                   output, invocations, factory, agent>>

\* the transport rejects the unary call
GenerateFailure(error) ==
    /\ pc = "awaitGenerate"
    /\ reply' = [kind |-> "rejected", value |-> error]
    /\ outcome' = Threw(handleError(error))
    /\ pc' = "done"
    /\ UNCHANGED <<self, op, options, sent, isFirstChunk, args, warnings, received, emitted,
                   output, invocations, factory, agent>>

\* doStream up to its await
DoStream(o) ==
    /\ pc = "idle"
    /\ op' = "stream"
    /\ options' = o
    /\ LET built == getArgs(self, o)
       IN IF built.threw
          THEN /\ outcome' = Threw(built.error)
               /\ pc' = "done"
               /\ UNCHANGED <<sent, args, warnings>>
          ELSE /\ args' = built.args
               /\ warnings' = built.warnings
               /\ sent' = Append(sent, [url |-> ChatUrl(self),
                                        body |-> [stream |-> TRUE] @@ built.args])
               /\ pc' = "awaitStream"
               /\ UNCHANGED outcome
    /\ UNCHANGED <<self, reply, isFirstChunk, received, emitted, output, invocations, factory, agent>>

\* the transport resolves the streaming call: the chunk source is piped
\* through the transform and the stream is returned
StreamResponse ==
    /\ pc = "awaitStream"
    /\ reply' = [kind |-> "resolved", value |-> "event source"]
    /\ isFirstChunk' = TRUE
    /\ outcome' = Returned([stream |-> "ReadableStream", warnings |-> warnings])
    /\ pc' = "streaming"
    /\ UNCHANGED <<self, op, options, sent, args, warnings, received, emitted, output,
                   invocations, factory, agent>>

\* faulty variant: a rejected streaming request is sent once more
StreamFailure_Retry(error) ==
    /\ pc = "awaitStream"
    /\ Len(sent) < 2
    /\ sent' = Append(sent, sent[1])
    /\ UNCHANGED <<self, pc, op, options, reply, outcome, isFirstChunk, args, warnings,
                   received, emitted, output, invocations, factory, agent>>

\* the transport rejects the streaming call
StreamFailure(error) ==
    /\ pc = "awaitStream"
    /\ reply' = [kind |-> "rejected", value |-> error]
    /\ outcome' = Threw(handleError(error))
    /\ pc' = "done"
    /\ UNCHANGED <<self, op, options, sent, isFirstChunk, args, warnings, received, emitted,
                   output, invocations, factory, agent>>

\* the transform callback runs on the next raw chunk of the source
Transform(chunk) ==
    /\ pc = "streaming"
    /\ Len(received) < MaxChunks
    /\ received' = Append(received, chunk)
    /\ emitted' = Append(emitted, TransformOutput(chunk, isFirstChunk, warnings))
    /\ output' = output \o TransformOutput(chunk, isFirstChunk, warnings)
    /\ isFirstChunk' = FALSE
    /\ UNCHANGED <<self, pc, op, options, reply, sent, outcome, args, warnings, invocations, factory, agent>>

\* the source ends: the transform has no flush, the stream closes
SourceClose ==
    /\ pc = "streaming"
    /\ pc' = "closed"
    /\ UNCHANGED <<self, op, options, reply, sent, outcome, isFirstChunk, args, warnings,
                   received, emitted, output, invocations, factory, agent>>

Next ==
    \/ \E o \in SampleOptions : DoGenerate(o)
    \/ \E data \in NativeResponses : GenerateResponse(data)
    \/ \E error \in TransportFailures : GenerateFailure(error)
    \/ \E o \in SampleOptions : DoStream(o)
    \/ StreamResponse
    \/ \E error \in TransportFailures : StreamFailure(error)
    \/ \E chunk \in Chunks : Transform(chunk)
    \/ SourceClose

Spec == Init /\ [][Next]_vars

\* the request builder on every prompt within the bounds (a call starts
\* from idle only: the guard of DoGenerate and DoStream, tested once here)
NextBuild ==
    \/ pc = "idle" /\ \E o \in BuildOptions : DoGenerate(o)
    \/ pc = "idle" /\ \E o \in BuildOptions : DoStream(o)

SpecBuild == Init /\ [][NextBuild]_vars

InitArgs ==
    /\ self \in ArgsInstances
    /\ pc = "idle"
    /\ op = "none"
    /\ options = EmptyObj
    /\ reply = [kind |-> "none"]
    /\ sent = <<>>
    /\ outcome = Pending
    /\ isFirstChunk = FALSE
    /\ args = EmptyObj
    /\ warnings = <<>>
    /\ received = <<>>
    /\ emitted = <<>>
    /\ output = <<>>
    /\ invocations = <<>>
    /\ factory = [pc |-> "none"]
    /\ agent = [pc |-> "none"]

\* the request builder on every combination of call options and settings
NextArgs ==
    \/ pc = "idle" /\ \E o \in ArgsOptions : DoGenerate(o)
    \/ pc = "idle" /\ \E o \in ArgsOptions : DoStream(o)

SpecArgs == InitArgs /\ [][NextArgs]_vars

\* the events the stream has produced, in order
----------------------------------------------------------------------------
(* Several calls on one instance, their steps interleaved                  *)

\* getArgs declares `warnings` and doStream declares `isFirstChunk` as locals,
\* so every invocation has its own: invocations[c] holds the locals of call c
ConcOptions ==
    {[prompt |-> <<UserMsg(<<TextA>>)>>], [prompt |-> <<UserMsg(<<TextA, FileNamed>>)>>]}

ConcChunks == {TextChunk, DoneChunk}

ConcData ==
    [choices |-> <<[message |-> [role |-> "assistant", content |-> "Hello"],
                    finish_reason |-> "stop", index |-> 0]>>,
     usage |-> NativeUsage, model |-> "amp-chat"]

\* a call enters: getArgs runs to its end before the first await
Invoke(kind, o) ==
    /\ Len(invocations) < MaxCalls
    /\ LET built == getArgs(self, o)
       IN invocations' = Append(invocations,
              [op |-> kind, options |-> o, args |-> built.args, warnings |-> built.warnings,
               pc |-> IF kind = "generate" THEN "awaitGenerate" ELSE "awaitStream",
               outcome |-> Pending, isFirstChunk |-> FALSE,
               received |-> <<>>, emitted |-> <<>>])
    /\ UNCHANGED <<chatVars, factory, agent>>

ConcGenerateResponse(c) ==
    /\ invocations[c].pc = "awaitGenerate"
    /\ invocations' = [invocations EXCEPT
           ![c].outcome = Returned(GenerateBody(ConcData, invocations[c].args,
                                             invocations[c].warnings).value),
           ![c].pc = "done"]
    /\ UNCHANGED <<chatVars, factory, agent>>

ConcStreamResponse(c) ==
    /\ invocations[c].pc = "awaitStream"
    /\ invocations' = [invocations EXCEPT
           ![c].isFirstChunk = TRUE,
           ![c].outcome = Returned([stream |-> "ReadableStream",
                                    warnings |-> invocations[c].warnings]),
           ![c].pc = "streaming"]
    /\ UNCHANGED <<chatVars, factory, agent>>

\* faulty variant: one flag for all streams of the instance
FirstChunkFlag_Shared(c) ==
    \A d \in 1..Len(invocations) : Len(invocations[d].received) = 0

\* the isFirstChunk the transform callback of call c closes over
FirstChunkFlag(c) == invocations[c].isFirstChunk

ConcTransform(c, chunk) ==
    /\ invocations[c].pc = "streaming"
    /\ Len(invocations[c].received) < MaxConcChunks
    /\ invocations' = [invocations EXCEPT
           ![c].received = Append(@, chunk),
           ![c].emitted = Append(@, TransformOutput(chunk, FirstChunkFlag(c),
                                                    invocations[c].warnings)),
           ![c].isFirstChunk = FALSE]
    /\ UNCHANGED <<chatVars, factory, agent>>

ConcSourceClose(c) ==
    /\ invocations[c].pc = "streaming"
    /\ invocations' = [invocations EXCEPT ![c].pc = "closed"]
    /\ UNCHANGED <<chatVars, factory, agent>>

NextConc ==
    \/ \E o \in ConcOptions : Invoke("generate", o)
    \/ \E o \in ConcOptions : Invoke("stream", o)
    \/ \E c \in 1..Len(invocations) : ConcGenerateResponse(c)
    \/ \E c \in 1..Len(invocations) : ConcStreamResponse(c)
    \/ \E c \in 1..Len(invocations), chunk \in ConcChunks : ConcTransform(c, chunk)
    \/ \E c \in 1..Len(invocations) : ConcSourceClose(c)

SpecConc == Init /\ [][NextConc]_vars

----------------------------------------------------------------------------
(* The provider factory (index.ts) and the models it creates               *)

\* JavaScript truthiness of an optional property: dangerouslyAllowAll holds a
\* boolean, the other properties a string
Truthy(obj, f) ==
    Has(obj, f) /\ (IF f = "dangerouslyAllowAll" THEN obj[f] ELSE obj[f] # "")

\* faulty variant: per-model settings count only when their value is truthy
shouldUseAgent_Truthy(opts, modelId, settings) ==
    \/ modelId = "amp-code" \/ modelId = "amp-reasoning"
    \/ Truthy(settings, "cwd") \/ Truthy(settings, "toolbox")
    \/ Truthy(settings, "dangerouslyAllowAll")
    \/ Truthy(opts, "cwd") \/ Truthy(opts, "toolbox") \/ Truthy(opts, "dangerouslyAllowAll")

shouldUseAgent(opts, modelId, settings) ==
    LET isAgentModel == modelId = "amp-code" \/ modelId = "amp-reasoning"
        hasAgentSettings ==
            Has(settings, "cwd") \/ Has(settings, "toolbox") \/ Has(settings, "dangerouslyAllowAll")
        hasGlobalAgentSettings ==
            Truthy(opts, "cwd") \/ Truthy(opts, "toolbox") \/ Truthy(opts, "dangerouslyAllowAll")
    IN isAgentModel \/ hasAgentSettings \/ hasGlobalAgentSettings

\* loadApiKey of @ai-sdk/provider-utils: the option when it is given, else the
\* environment variable, else a LoadAPIKeyError; env is the value of
\* AMP_API_KEY as a sequence of length at most one
loadApiKey(opts, env) ==
    IF Has(opts, "apiKey") THEN [threw |-> FALSE, value |-> opts.apiKey]
    ELSE IF Len(env) > 0 THEN [threw |-> FALSE, value |-> env[1]]
    ELSE [threw |-> TRUE, error |-> [name |-> "AI_LoadAPIKeyError"]]

\* `a.f || b.f` as a property: left out when the result is undefined
OrElse(f, a, b) ==
    IF Truthy(a, f) THEN (f :> a[f]) ELSE IF Has(b, f) THEN (f :> b[f]) ELSE EmptyObj

\* the settings handed to the agent model
agentSettings(opts, settings) ==
    OrElse("cwd", settings, opts) @@ OrElse("toolbox", settings, opts)
      @@ OrElse("systemPrompt", settings, opts)
      @@ [dangerouslyAllowAll |->
             IF Has(settings, "dangerouslyAllowAll") THEN settings.dangerouslyAllowAll
             ELSE IF Has(opts, "dangerouslyAllowAll") THEN opts.dangerouslyAllowAll
             ELSE FALSE]
      @@ settings

\* createModel: the agent branch loads the API key while the model is built,
\* the chat branch only inside the headers closure
createModel(opts, env, modelId, settings) ==
    IF shouldUseAgent(opts, modelId, settings)
    THEN LET apiKey == loadApiKey(opts, env)
         IN IF apiKey.threw THEN apiKey
            ELSE [threw |-> FALSE,
                  value |-> [class |-> "AmpAgentLanguageModel", modelId |-> modelId,
                             provider |-> "amp", settings |-> agentSettings(opts, settings)]]
    ELSE [threw |-> FALSE,
          value |-> [class |-> "AmpChatLanguageModel", modelId |-> modelId,
                     provider |-> "amp", settings |-> settings]]

ProviderOptions ==
    {c @@ t @@ d @@ k :
        c \in Optional("cwd", {"", "/repo"}),
        t \in Optional("toolbox", {"/tools"}),
        d \in Optional("dangerouslyAllowAll", BOOLEAN),
        k \in Optional("apiKey", {"key"})}

Environments == {<<>>, <<"env-key">>}

ModelIds == {"amp-chat", "amp-code", "amp-reasoning", "custom"}

\* the settings argument: left out (<<>>) or one object
SettingsArguments ==
    {<<>>, <<EmptyObj>>, <<[temperature |-> 1]>>, <<[cwd |-> "/work"]>>, <<[cwd |-> ""]>>,
     <<[toolbox |-> "/bin"]>>, <<[dangerouslyAllowAll |-> FALSE]>>,
     <<[dangerouslyAllowAll |-> TRUE, systemPrompt |-> "be exact"]>>}

NoStream == [queue |-> <<>>, closed |-> FALSE, timer |-> FALSE, delivered |-> <<>>, done |-> FALSE,
             cancelled |-> FALSE, misuse |-> FALSE]

InitFactory ==
    /\ self \in Instances
    /\ pc = "idle"
    /\ op = "none"
    /\ options = EmptyObj
    /\ reply = [kind |-> "none"]
    /\ sent = <<>>
    /\ outcome = Pending
    /\ isFirstChunk = FALSE
    /\ args = EmptyObj
    /\ warnings = <<>>
    /\ received = <<>>
    /\ emitted = <<>>
    /\ output = <<>>
    /\ invocations = <<>>
    /\ agent = [pc |-> "none"]
    /\ \E opts \in ProviderOptions, env \in Environments :
          factory = [pc |-> "created", options |-> opts, env |-> env, modelId |-> "",
                     argument |-> <<>>, result |-> [threw |-> FALSE], promptLength |-> 0,
                     stream |-> NoStream]

\* provider(modelId, settings): the default `settings = {}` stands for a
\* settings argument left out
Provider(modelId, argument) ==
    /\ factory.pc = "created"
    /\ LET settings == IF Len(argument) = 0 THEN EmptyObj ELSE argument[1]
           made == createModel(factory.options, factory.env, modelId, settings)
       IN factory' = [factory EXCEPT !.modelId = modelId, !.argument = argument,
                                     !.result = made,
                                     !.pc = IF made.threw THEN "threw" ELSE "made"]
    /\ UNCHANGED <<chatVars, invocations, agent>>

TextDelta(text) == [type |-> "text-delta", textDelta |-> text]

MockFinish(promptTokens, completionTokens) ==
    [type |-> "finish", finishReason |-> "stop",
     usage |-> [promptTokens |-> promptTokens, completionTokens |-> completionTokens]]

\* Math.ceil(n / 4)
CeilQuarter(n) == (n + 3) \div 4

\* start(controller) of the chat model's stream: two events, then close
ChatStart(promptLength) ==
    [queue |-> <<TextDelta("Mock streaming response"),
                 MockFinish(CeilQuarter(promptLength), 15)>>,
     closed |-> TRUE, timer |-> FALSE, delivered |-> <<>>, done |-> FALSE,
     cancelled |-> FALSE, misuse |-> FALSE]

\* start(controller) of the agent model's stream: one event and a timer
AgentStart ==
    [queue |-> <<TextDelta("[AGENT MODE] Mock streaming agent response...")>>,
     closed |-> FALSE, timer |-> TRUE, delivered |-> <<>>, done |-> FALSE,
     cancelled |-> FALSE, misuse |-> FALSE]

\* doStream of the created model, on a prompt of promptLength messages
MockDoStream(promptLength) ==
    /\ factory.pc = "made"
    /\ factory' = [factory EXCEPT
           !.pc = "streaming",
           !.promptLength = promptLength,
           !.stream = IF factory.result.value.class = "AmpAgentLanguageModel"
                      THEN AgentStart ELSE ChatStart(promptLength)]
    /\ UNCHANGED <<chatVars, invocations, agent>>

\* faulty variant: the timer callback does not close the stream
TimerCallback_NoClose ==
    /\ factory.pc = "streaming"
    /\ factory.stream.timer
    /\ factory' = IF factory.stream.cancelled
                  THEN [factory EXCEPT !.stream.misuse = TRUE, !.stream.timer = FALSE]
                  ELSE [factory EXCEPT
                           !.stream.queue = @ \o <<TextDelta("\n\nAgent capabilities enabled!"),
                                                   MockFinish(20, 30)>>,
                           !.stream.timer = FALSE]
    /\ UNCHANGED <<chatVars, invocations, agent>>

\* the setTimeout callback of the agent model's stream: it enqueues and closes
\* without looking at the stream; on a cancelled stream the first enqueue
\* throws a TypeError out of the callback (misuse) and nothing is queued
TimerCallback ==
    /\ factory.pc = "streaming"
    /\ factory.stream.timer
    /\ factory' = IF factory.stream.cancelled
                  THEN [factory EXCEPT !.stream.misuse = TRUE, !.stream.timer = FALSE]
                  ELSE [factory EXCEPT
                           !.stream.queue = @ \o <<TextDelta("\n\nAgent capabilities enabled!"),
                                                   MockFinish(20, 30)>>,
                           !.stream.closed = TRUE,
                           !.stream.timer = FALSE]
    /\ UNCHANGED <<chatVars, invocations, agent>>

\* reader.read() settles: with the next queued event, or with done once the
\* queue is empty and the stream closed; it stays pending otherwise
Read ==
    /\ factory.pc = "streaming"
    /\ ~factory.stream.done
    /\ IF Len(factory.stream.queue) > 0
       THEN factory' = [factory EXCEPT !.stream.delivered = Append(@, Head(factory.stream.queue)),
                                       !.stream.queue = Tail(@)]
       ELSE /\ factory.stream.closed
            /\ factory' = [factory EXCEPT !.stream.done = TRUE]
    /\ UNCHANGED <<chatVars, invocations, agent>>

NextFactory ==
    \/ \E modelId \in ModelIds, argument \in SettingsArguments : Provider(modelId, argument)
    \/ \E promptLength \in 0..MaxPromptMsgs : MockDoStream(promptLength)
    \/ TimerCallback
    \/ Read

SpecFactory == InitFactory /\ [][NextFactory]_vars

\* reader.cancel() on a stream not yet read to its end: the queue is dropped
\* and the reader is done; the underlying source has no cancel method, so a
\* pending timer stays armed
Cancel ==
    /\ factory.pc = "streaming"
    /\ ~factory.stream.done
    /\ factory' = [factory EXCEPT !.stream.queue = <<>>,
                                   !.stream.cancelled = TRUE,
                                   !.stream.done = TRUE]
    /\ UNCHANGED <<chatVars, invocations, agent>>

NextCancel ==
    \/ NextFactory
    \/ Cancel

SpecCancel == InitFactory /\ [][NextCancel]_vars

\* timers fire and the reader keeps reading
SpecMock == SpecFactory /\ WF_vars(TimerCallback) /\ WF_vars(Read)

----------------------------------------------------------------------------
(* The agent adapter (src/src/amp-agent-language-model.ts)                 *)

\* Array.prototype.join(sep) on an array of strings
RECURSIVE Join(_, _)
Join(strs, sep) ==
    IF Len(strs) = 0 THEN ""
    ELSE IF Len(strs) = 1 THEN strs[1]
    ELSE strs[1] \o sep \o Join(Tail(strs), sep)

DEFAULT_CODING_PROMPTS ==
    [amp_code |-> "You are an expert coding assistant. You help with code analysis, generation, debugging, and refactoring. Always provide clear, working code examples and explain your reasoning.",
     amp_reasoning |-> "You are a reasoning assistant focused on problem-solving and analysis. Break down complex problems step by step and provide detailed explanations.",
     amp_chat |-> "You are a helpful AI assistant."]

\* the string the prompt.map callback of buildPrompt returns for one message
PromptLine(message) ==
    CASE message.role = "system" -> "System: " \o message.text
      [] message.role = "user" ->
           "User: " \o Join([k \in 1..Len(message.content) |->
                               IF message.content[k].type = "text" THEN message.content[k].text
                               ELSE IF message.content[k].type = "file"
                               THEN "[File: " \o FilenameOrUnknown(message.content[k]) \o "]"
                               ELSE ""], "\n")
      [] message.role = "assistant" ->
           "Assistant: " \o Join([k \in 1..Len(SelectSeq(message.content,
                                                         LAMBDA part : part.type = "text")) |->
                                     SelectSeq(message.content,
                                               LAMBDA part : part.type = "text")[k].text], "\n")
      [] message.role = "tool" ->
           "Tool result: " \o JSONStringify(
               IF Len(message.content) > 0 /\ Has(message.content[1], "result")
               THEN message.content[1].result ELSE "")
      [] OTHER -> ""

\* buildPrompt: the system prompt, a blank line, the non-empty lines of the messages
buildPrompt(inst, prompt) ==
    LET systemPrompt ==
            IF Has(inst.settings, "systemPrompt") /\ inst.settings.systemPrompt # ""
            THEN inst.settings.systemPrompt
            ELSE IF inst.modelId = "amp-code" THEN DEFAULT_CODING_PROMPTS.amp_code
            ELSE IF inst.modelId = "amp-reasoning" THEN DEFAULT_CODING_PROMPTS.amp_reasoning
            ELSE DEFAULT_CODING_PROMPTS.amp_chat
        messages == SelectSeq([i \in 1..Len(prompt) |-> PromptLine(prompt[i])],
                              LAMBDA line : line # "")
    IN systemPrompt \o "\n\n" \o Join(messages, "\n\n")

\* doGenerate: the result message's result, else the joined text contents,
\* else the fixed text
finalText(messages) ==
    LET results == SelectSeq(messages, LAMBDA m : m.type = "result")
        texts == SelectSeq(messages, LAMBDA m : m.type = "text")
        joined == Join([k \in 1..Len(texts) |-> texts[k].content], "")
    IN IF Len(results) > 0 /\ results[1].result # "" THEN results[1].result
       ELSE IF joined # "" THEN joined
       ELSE "No response from agent"

\* the value doGenerate resolves with
AgentGenerateResult(prompt, messages) ==
    [content |-> <<[type |-> "text", text |-> finalText(messages)]>>,
     finishReason |-> "stop",
     usage |-> [inputTokens |-> Len(prompt),
                outputTokens |-> Len(finalText(messages)),
                totalTokens |-> Len(prompt) + Len(finalText(messages))],
     warnings |-> <<>>]

\* faulty variant: result messages are not forwarded
AgentTranslate_TextOnly(message) ==
    IF message.type = "text" THEN <<TextEvent(message.content)>> ELSE <<>>

\* the switch inside the for await of doStream: the events for one message
AgentTranslate(message) ==
    CASE message.type = "text" -> <<TextEvent(message.content)>>
      [] message.type = "result" -> <<TextEvent(message.result)>>
      [] OTHER -> <<>>

AgentFinishEvent(prompt) ==
    [type |-> "finish", finishReason |-> "stop",
     usage |-> [inputTokens |-> Len(prompt), outputTokens |-> 0, totalTokens |-> Len(prompt)]]

AgentErrorEvent ==
    [type |-> "error",
     error |-> [name |-> "Error", message |-> "Failed to stream from Amp agent: Error: exec"]]

AgentInstances ==
    {[modelId |-> id, settings |-> st] :
        id \in {"amp-code", "custom"}, st \in {EmptyObj, [systemPrompt |-> "Be exact."]}}

AgentPrompts ==
    {<<UserMsg(<<TextA>>)>>,
     <<SystemMsg, UserMsg(<<TextA, FileNamed>>)>>,
     <<UserMsg(<<TextA>>), DeveloperMsg>>,
     <<AssistantMsg(<<TextA, ToolCall1>>), ToolMsg(<<ToolResult1>>)>>}

\* messages the execution may yield
ExecMessages ==
    {[type |-> "text", content |-> "Hi"], [type |-> "text", content |-> "!"],
     [type |-> "result", result |-> "Done"], [type |-> "result", result |-> ""],
     [type |-> "tool_use"]}

InitAgent ==
    /\ self \in AgentInstances
    /\ pc = "idle"
    /\ op = "none"
    /\ options = EmptyObj
    /\ reply = [kind |-> "none"]
    /\ sent = <<>>
    /\ outcome = Pending
    /\ isFirstChunk = FALSE
    /\ args = EmptyObj
    /\ warnings = <<>>
    /\ received = <<>>
    /\ emitted = <<>>
    /\ output = <<>>
    /\ invocations = <<>>
    /\ factory = [pc |-> "none"]
    /\ agent = [pc |-> "idle", op |-> "none", prompt |-> "", flat |-> "", read |-> <<>>,
                output |-> <<>>, closed |-> FALSE, outcome |-> Pending,
                ending |-> "none", cancelled |-> FALSE, aborted |-> FALSE, sourceReturned |-> FALSE,
                mark |-> [read |-> 0, output |-> 0]]

\* doGenerate up to the for await
AgentDoGenerate(prompt) ==
    /\ agent.pc = "idle"
    /\ agent' = [agent EXCEPT !.pc = "collecting", !.op = "generate", !.prompt = prompt,
                              !.flat = buildPrompt(self, prompt)]
    /\ UNCHANGED <<chatVars, invocations, factory>>

\* doStream: the stream is constructed, start() runs up to its first await
\* (stream-start is enqueued), and the stream is returned
AgentDoStream(prompt) ==
    /\ agent.pc = "idle"
    /\ agent' = [agent EXCEPT !.pc = "streaming", !.op = "stream", !.prompt = prompt,
                              !.flat = buildPrompt(self, prompt),
                              !.output = <<StreamStartEvent(<<>>)>>,
                              !.outcome = Returned([stream |-> "ReadableStream",
                                                    warnings |-> <<>>])]
    /\ UNCHANGED <<chatVars, invocations, factory>>

\* enqueue or close on a cancelled stream throws; inside start() the catch
\* block's own enqueue throws again, so start() ends and the for await
\* returns the execution
StartAborts == [agent EXCEPT !.pc = "closed", !.sourceReturned = TRUE]

\* the execution yields a message
AgentMessage(message) ==
    /\ agent.pc \in {"collecting", "streaming"}
    /\ Len(agent.read) < MaxExec
    /\ ~agent.sourceReturned
    /\ IF agent.pc = "collecting"
       THEN agent' = [agent EXCEPT !.read = Append(@, message)]
       ELSE IF agent.cancelled /\ AgentTranslate(message) # <<>>
       THEN agent' = [StartAborts EXCEPT !.read = Append(@, message)]
       ELSE agent' = [agent EXCEPT !.read = Append(@, message),
                                   !.output = @ \o AgentTranslate(message)]
    /\ UNCHANGED <<chatVars, invocations, factory>>

\* the execution ends
AgentEnd ==
    /\ agent.pc \in {"collecting", "streaming"}
    /\ ~agent.sourceReturned
    /\ IF agent.pc = "collecting"
       THEN agent' = [agent EXCEPT !.pc = "done", !.ending = "ended",
                                   !.outcome = Returned(AgentGenerateResult(agent.flat,
                                                                            agent.read))]
       ELSE IF agent.cancelled
       THEN agent' = [StartAborts EXCEPT !.sourceReturned = FALSE, !.ending = "ended"]
       ELSE agent' = [agent EXCEPT !.pc = "closed", !.closed = TRUE, !.ending = "ended",
                                   !.output = Append(@, AgentFinishEvent(agent.flat))]
    /\ UNCHANGED <<chatVars, invocations, factory>>

\* reading the execution throws
AgentFail ==
    /\ agent.pc \in {"collecting", "streaming"}
    /\ ~agent.sourceReturned
    /\ IF agent.pc = "collecting"
       THEN agent' = [agent EXCEPT !.pc = "done", !.ending = "failed",
                                   !.outcome = Threw([name |-> "Error",
                                       message |-> "Amp Agent Execution Failed: Error: exec"])]
       ELSE IF agent.cancelled
       THEN agent' = [StartAborts EXCEPT !.sourceReturned = FALSE, !.ending = "failed"]
       ELSE agent' = [agent EXCEPT !.pc = "closed", !.closed = TRUE, !.ending = "failed",
                                   !.output = Append(@, AgentErrorEvent)]
    /\ UNCHANGED <<chatVars, invocations, factory>>

\* the consumer cancels the returned stream: the underlying source given to
\* the ReadableStream has no cancel method
AgentStreamCancel ==
    /\ agent.pc = "streaming"
    /\ ~agent.cancelled /\ ~agent.aborted
    /\ agent' = [agent EXCEPT !.cancelled = TRUE,
                              !.mark = [read |-> Len(agent.read), output |-> Len(agent.output)]]
    /\ UNCHANGED <<chatVars, invocations, factory>>

\* the consumer aborts options.abortSignal: doStream never reads the signal
AgentAbort ==
    /\ agent.pc = "streaming"
    /\ ~agent.cancelled /\ ~agent.aborted
    /\ agent' = [agent EXCEPT !.aborted = TRUE,
                              !.mark = [read |-> Len(agent.read), output |-> Len(agent.output)]]
    /\ UNCHANGED <<chatVars, invocations, factory>>

NextAgent ==
    \/ \E prompt \in AgentPrompts : AgentDoGenerate(prompt)
    \/ \E prompt \in AgentPrompts : AgentDoStream(prompt)
    \/ \E message \in ExecMessages : AgentMessage(message)
    \/ AgentEnd
    \/ AgentFail

SpecAgent == InitAgent /\ [][NextAgent]_vars

NextAgentCancel ==
    \/ NextAgent
    \/ AgentStreamCancel
    \/ AgentAbort

SpecAgentCancel == InitAgent /\ [][NextAgentCancel]_vars

Events == Flatten(emitted)

TypeOK ==
    /\ pc \in {"idle", "awaitGenerate", "awaitStream", "streaming", "closed", "done"}
    /\ op \in {"none", "generate", "stream"}
    /\ outcome.kind \in {"pending", "returned", "threw"}
    /\ isFirstChunk \in BOOLEAN
    /\ Len(received) = Len(emitted)

----------------------------------------------------------------------------
(* Properties of the chat adapter's stream *)

StreamStartCount == Cardinality({i \in 1..Len(Events) : Events[i].type = "stream-start"})

\* C1: stream-start is emitted exactly once, as the very first event, while
\* the first raw chunk is handled and before anything translated from that
\* chunk; as long as no chunk has arrived (also when the source ends without
\* one) no event at all has been emitted.
C1_StreamStartFirstOnce ==
    /\ Len(received) = 0 => Len(Events) = 0
    /\ Len(received) > 0 =>
         /\ Len(emitted[1]) >= 1
         /\ emitted[1][1].type = "stream-start"
         /\ Events[1].type = "stream-start"
         /\ StreamStartCount = 1

C1_Witness ==
    /\ pc = "closed"
    /\ Len(received) >= 2
    /\ received[1] = TextFinishChunk
    /\ Len(emitted[1]) = 3

IsParseErrorFor(event, chunk) ==
    /\ event.type = "error"
    /\ event.error.name = "InvalidResponseDataError"
    /\ event.error.data = chunk

\* C2: a chunk that is not JSON, arriving after stream-start, yields exactly
\* one error event that carries the raw chunk and nothing else, and the stream
\* goes on: a chunk received after it yields the same events as the same chunk
\* yielded when it was the first one received (with nothing malformed before it).
C2_MalformedChunkRecoverable ==
    \A i \in 2..Len(received) :
        received[i] \in MalformedChunks =>
            /\ Len(emitted[i]) = 1
            /\ IsParseErrorFor(emitted[i][1], received[i])
            /\ \A j \in (i + 1)..Len(received) :
                   received[j] = received[1] => emitted[j] = Tail(emitted[1])

C2_Witness ==
    /\ Len(received) >= 3
    /\ received[1] = TextFinishChunk
    /\ received[2] = NotJsonChunk
    /\ received[3] = TextFinishChunk
    /\ Len(emitted[3]) = 2

\* C3 as claimed: the sentinel [DONE] yields no output event at any position,
\* the first included.
C3_DoneNoEventAnywhere ==
    \A i \in 1..Len(received) : received[i] = DoneChunk => emitted[i] = <<>>

\* C3, amended: nothing is translated from the sentinel [DONE] at any
\* position; when it is the first chunk received, its arrival still emits
\* the stream-start, and only that.
C3_DoneSwallowed ==
    \A i \in 1..Len(received) :
        received[i] = DoneChunk =>
            /\ i > 1 => emitted[i] = <<>>
            /\ i = 1 => /\ Len(emitted[i]) = 1
                        /\ emitted[i][1].type = "stream-start"

C3_Witness ==
    /\ Len(received) >= 2
    /\ received[1] = DoneChunk
    /\ received[2] = DoneChunk
    /\ Len(Events) = 1

----------------------------------------------------------------------------
(* Properties of the response mapper and of the error mapping *)

\* the finish-reason table of the specification
NormalizedReason(native) ==
    IF native = "stop" THEN "stop"
    ELSE IF native = "length" THEN "length"
    ELSE IF native \in {"function_call", "tool_calls"} THEN "tool-calls"
    ELSE IF native = "content_filter" THEN "content-filter"
    ELSE "other"

\* the native finish reason a parsed chunk carries
ChunkReason(chunk) == JSONParse(chunk).value.choices[1].finish_reason

\* C4: the finish reason of a unary result is the table's image of the native
\* reason, for every native string (case variants and the empty string map to
\* other), and every finish event of a stream carries the table's image of
\* its chunk's native reason.
C4_FinishReasonMapping ==
    /\ (op = "generate" /\ outcome.kind = "returned") =>
           outcome.value.finishReason = NormalizedReason(reply.value.choices[1].finish_reason)
    /\ \A i \in 1..Len(received) : \A k \in 1..Len(emitted[i]) :
           emitted[i][k].type = "finish" =>
               emitted[i][k].finishReason = NormalizedReason(ChunkReason(received[i]))

C4_Witness ==
    /\ op = "generate"
    /\ outcome.kind = "returned"
    /\ reply.value.choices[1].finish_reason = "function_call"
    /\ outcome.value.finishReason = "tool-calls"

\* C5: a unary response with an empty choice array makes generate fail with
\* the invalid-response-data error that carries the response; no result is
\* returned.
C5_EmptyChoicesRejected ==
    (op = "generate" /\ reply.kind = "resolved" /\ Len(reply.value.choices) = 0) =>
        /\ outcome.kind = "threw"
        /\ outcome.error.name = "InvalidResponseDataError"
        /\ outcome.error.data = reply.value

C5_Witness ==
    /\ op = "generate"
    /\ reply.kind = "resolved"
    /\ Len(reply.value.choices) = 0
    /\ Has(reply.value, "usage")
    /\ outcome.kind = "threw"

\* C6: a transport call rejected with an HTTP response never returns
\* normally; status 429 surfaces the rate-limit error with the response's
\* retry-after header value, every status in 500..599 a transport error with
\* isRetryable true, every other status one with isRetryable false; the error
\* carries the HTTP status (as statusCode, and in the response it wraps).
C6_TransportErrorMapping ==
    (reply.kind = "rejected" /\ IsResponse(reply.value)) =>
        LET status == reply.value.status
            error == outcome.error
        IN /\ outcome.kind = "threw"
           /\ error.cause = reply.value
           /\ error.cause.status = status
           /\ status = 429 =>
                /\ error.name = "TooManyRequestsError"
                /\ error.retryAfter =
                     (IF "retry-after" \in DOMAIN reply.value.headers
                      THEN <<reply.value.headers["retry-after"]>> ELSE <<>>)
           /\ status # 429 =>
                /\ error.name = "APICallError"
                /\ error.statusCode = status
                /\ error.isRetryable = (status \in 500..599)

C6_Witness ==
    /\ reply.kind = "rejected"
    /\ IsResponse(reply.value)
    /\ reply.value.status = 500
    /\ outcome.kind = "threw"
    /\ outcome.error.isRetryable

\* C7: a call hands exactly one request to the transport and never a second
\* one, and a streaming call whose request is rejected ends with the error
\* thrown to the caller and without any stream event.
C7_SingleTransportCallAndAbort ==
    /\ Len(sent) <= 1
    /\ pc \in {"awaitGenerate", "awaitStream", "streaming", "closed"} => Len(sent) = 1
    /\ reply.kind # "none" => Len(sent) = 1
    /\ (op = "stream" /\ reply.kind = "rejected") =>
          /\ pc = "done"
          /\ outcome.kind = "threw"
          /\ Len(received) = 0
          /\ Len(Events) = 0

C7_Witness ==
    /\ op = "stream"
    /\ reply.kind = "rejected"
    /\ IsResponse(reply.value)
    /\ reply.value.status = 503
    /\ pc = "done"

----------------------------------------------------------------------------
(* Properties of the request builder *)

UnknownRoleIndexes(prompt) == {i \in 1..Len(prompt) : prompt[i].role \notin KnownRoles}

FirstUnknownRole(prompt) ==
    prompt[CHOOSE i \in UnknownRoleIndexes(prompt) :
               \A j \in UnknownRoleIndexes(prompt) : i <= j].role

\* C8: a call (generate or stream) whose prompt holds a message of unknown
\* role throws the unsupported-role error before anything is handed to the
\* transport: no request is sent, and no result, stream or warning list comes
\* back.
C8_UnknownRoleFailsBeforeTransport ==
    (op # "none" /\ UnknownRoleIndexes(options.prompt) # {}) =>
        /\ pc = "done"
        /\ outcome.kind = "threw"
        /\ outcome.error.message =
             "Unsupported message role: " \o FirstUnknownRole(options.prompt)
        /\ Len(sent) = 0
        /\ reply.kind = "none"
        /\ Len(Events) = 0

C8_Witness ==
    /\ op = "stream"
    /\ options.prompt = <<UserMsg(<<FileUnnamed>>), DeveloperMsg>>
    /\ outcome.kind = "threw"

BuildDone == pc \in {"awaitGenerate", "awaitStream"}

PartIndexes(content, types) == {k \in 1..Len(content) : content[k].type \in types}

\* the k-th smallest element of a set of indexes
NthIndex(indexes, k) ==
    CHOOSE j \in indexes : Cardinality({x \in indexes : x <= j}) = k

FilePartCount(prompt) ==
    LET withParts == {i \in 1..Len(prompt) : prompt[i].role \in {"user", "assistant"}}
        count[i \in 0..Len(prompt)] ==
            IF i = 0 THEN 0
            ELSE count[i - 1]
                   + (IF i \in withParts
                      THEN Cardinality(PartIndexes(prompt[i].content, {"file"})) ELSE 0)
    IN count[Len(prompt)]

Placeholder(part) ==
    IF "filename" \in DOMAIN part THEN "[File: " \o part.filename \o "]"
    ELSE "[File: unknown]"

\* the text a text or file part stands for in the native content
PartImage(part) == IF part.type = "file" THEN Placeholder(part) ELSE part.text

\* C9 as claimed: the warning list holds exactly one unsupported-feature
\* warning per file part of the prompt, whichever message holds the part, and
\* in the native content of the message each file part stands as its
\* placeholder at the part's position among the newline-joined text and file
\* parts, text parts verbatim.
C9_FilePartsWarnedAndReplaced ==
    BuildDone =>
        /\ Len(warnings) = FilePartCount(options.prompt)
        /\ \A w \in 1..Len(warnings) : warnings[w].type = "unsupported-feature"
        /\ \A i \in 1..Len(options.prompt) :
              (/\ options.prompt[i].role \in {"user", "assistant"}
               /\ PartIndexes(options.prompt[i].content, {"tool-call"}) = {}) =>
                  LET content == options.prompt[i].content
                  IN args.messages[i].content =
                         JoinNL([k \in 1..Len(content) |-> PartImage(content[k])])

\* C10: the native message of an assistant message has the newline-join of
\* the text parts as its text; with n >= 1 tool-call parts it carries n
\* tool-call entries in the parts' order, each with the part's id, the type
\* "function", the name and the argument string; with none, it has no
\* tool-call field.
C10_AssistantToolCalls ==
    BuildDone =>
        \A i \in 1..Len(options.prompt) :
            options.prompt[i].role = "assistant" =>
                LET content == options.prompt[i].content
                    native == args.messages[i]
                    texts == PartIndexes(content, {"text"})
                    calls == PartIndexes(content, {"tool-call"})
                    n == Cardinality(calls)
                IN /\ native.role = "assistant"
                   /\ native.content =
                        JoinNL([k \in 1..Cardinality(texts) |->
                                    content[NthIndex(texts, k)].text])
                   /\ n = 0 => "tool_calls" \notin DOMAIN native
                   /\ n >= 1 =>
                        /\ "tool_calls" \in DOMAIN native
                        /\ Len(native.tool_calls) = n
                        /\ \A k \in 1..n :
                              LET part == content[NthIndex(calls, k)]
                              IN native.tool_calls[k] =
                                     [id |-> part.toolCallId, type |-> "function",
                                      function |-> [name |-> part.toolName,
                                                    arguments |-> part.args]]

C10_Witness ==
    /\ BuildDone
    /\ Len(options.prompt) = 1
    /\ options.prompt[1] = AssistantMsg(<<ToolCall2, ToolCall1>>)
    /\ Len(args.messages[1].tool_calls) = 2

----------------------------------------------------------------------------
(* Properties of the option pass-through of the request builder *)

\* C11 as claimed: whatever the per-model settings (ampOptions included), a
\* call that supplies tool definitions gets a body whose tools field is the
\* list with one entry per supplied tool, in order, each with the tool's
\* name, description and parameter schema unchanged.
C11_ToolsMappedOneToOne ==
    (BuildDone /\ "tools" \in DOMAIN options) =>
        /\ "tools" \in DOMAIN args
        /\ args.tools.js = "array"
        /\ Len(args.tools.items) = Len(options.tools)
        /\ \A i \in 1..Len(options.tools) :
              /\ args.tools.items[i].type = "function"
              /\ args.tools.items[i].function = options.tools[i]

\* C14: the body's tool_choice is auto for auto, none for none, auto for
\* required and the tool's name for a choice of one tool; without a tool
\* choice, or with one the converter does not know, the field is left out.
C14_ToolChoiceMapping ==
    BuildDone =>
        IF "toolChoice" \notin DOMAIN options THEN "tool_choice" \notin DOMAIN args
        ELSE LET choice == options.toolChoice
             IN IF choice.js = "string" /\ choice.v \in {"auto", "none"}
                THEN "tool_choice" \in DOMAIN args /\ args.tool_choice = choice.v
                ELSE IF choice.js = "string" /\ choice.v = "required"
                THEN "tool_choice" \in DOMAIN args /\ args.tool_choice = "auto"
                ELSE IF choice.js = "object" /\ choice.type = "tool"
                THEN "tool_choice" \in DOMAIN args /\ args.tool_choice = choice.toolName
                ELSE "tool_choice" \notin DOMAIN args

C14_Witness ==
    /\ BuildDone
    /\ "toolChoice" \in DOMAIN options
    /\ options.toolChoice = ToolChoiceString("required")
    /\ args.tool_choice = "auto"

\* what `call ?? setting` must leave in the body field
PassedThrough(field, callField, settingField) ==
    IF callField \in DOMAIN options
    THEN field \in DOMAIN args /\ args[field] = options[callField]
    ELSE IF settingField \in DOMAIN self.settings
    THEN field \in DOMAIN args /\ args[field] = self.settings[settingField]
    ELSE field \notin DOMAIN args

\* C15: for temperature and max tokens the call-level value, when present
\* (0 included), goes into the body unchanged and wins over the per-model
\* setting; without it the setting is used; without both the field is left
\* out. Stop sequences go through unchanged when present and are left out
\* otherwise.
C15_OptionPassThrough ==
    BuildDone =>
        /\ PassedThrough("temperature", "temperature", "temperature")
        /\ PassedThrough("max_tokens", "maxOutputTokens", "maxTokens")
        /\ IF "stopSequences" \in DOMAIN options
           THEN "stop" \in DOMAIN args /\ args.stop = options.stopSequences
           ELSE "stop" \notin DOMAIN args

C15_Witness ==
    /\ BuildDone
    /\ "temperature" \in DOMAIN options /\ options.temperature = 0
    /\ "temperature" \in DOMAIN self.settings /\ self.settings.temperature = 1
    /\ args.temperature = 0
    /\ "maxOutputTokens" \notin DOMAIN options
    /\ "maxTokens" \in DOMAIN self.settings
    /\ args.max_tokens = 100

\* indexes of the tool messages of a prompt that hold more than one tool result
MultiResultIndexes(prompt) ==
    {i \in 1..Len(prompt) : prompt[i].role = "tool" /\ Len(prompt[i].content) > 1}

\* C12 as claimed: a call whose prompt has a tool message with more than one
\* tool result does not fail in the request builder, the native message of
\* that tool message carries the first result only, and the warning list
\* holds a warning that records the dropped results.
C12_MultiToolResultWarned ==
    (/\ pc # "idle"
     /\ MultiResultIndexes(options.prompt) # {}
     /\ UnknownRoleIndexes(options.prompt) = {}) =>
        /\ BuildDone
        /\ \A i \in MultiResultIndexes(options.prompt) :
              LET first == options.prompt[i].content[1]
              IN args.messages[i] =
                     [role |-> "function", name |-> first.toolName,
                      content |-> JSONStringify(first.result)]
        /\ \E w \in 1..Len(warnings) :
              /\ warnings[w].type = "unsupported-feature"
              /\ warnings[w] # FileWarning

\* C16: the content list of a returned result is the message text as one text
\* part first, when the text is present and not empty, and then one tool-call
\* part per native tool-call entry in the backend's order; nothing else.
C16_ContentOrder ==
    (op = "generate" /\ outcome.kind = "returned") =>
        LET message == reply.value.choices[1].message
            content == outcome.value.content
            hasText == "content" \in DOMAIN message /\ message.content # ""
            toolCalls == IF "tool_calls" \in DOMAIN message THEN message.tool_calls ELSE <<>>
            offset == IF hasText THEN 1 ELSE 0
        IN /\ Len(content) = offset + Len(toolCalls)
           /\ hasText => content[1] = [type |-> "text", text |-> message.content]
           /\ \A i \in 1..Len(toolCalls) :
                 /\ content[offset + i].type = "tool-call"
                 /\ content[offset + i].toolCallId = toolCalls[i].id
                 /\ content[offset + i].toolName = toolCalls[i].function.name
                 /\ content[offset + i].args = toolCalls[i].function.arguments

C16_Witness ==
    /\ op = "generate"
    /\ outcome.kind = "returned"
    /\ reply.value.choices[1].message =
           [role |-> "assistant", content |-> "Hi", tool_calls |-> <<NativeCall2, NativeCall1>>]
    /\ Len(outcome.value.content) = 3
    /\ outcome.value.content[1].type = "text"
    /\ outcome.value.content[2].toolCallId = "c2"
    /\ outcome.value.content[3].toolCallId = "c1"

\* the entries of delta.tool_calls in a raw chunk (none when the chunk is the
\* sentinel, does not parse or has no delta)
ToolCallEntries(chunk) ==
    IF chunk = DoneChunk \/ JSONParse(chunk).threw THEN <<>>
    ELSE LET data == JSONParse(chunk).value
         IN IF IsNull(data) \/ ~HasDelta(data) THEN <<>>
            ELSE IF Has(data.choices[1].delta, "tool_calls")
                 THEN data.choices[1].delta.tool_calls ELSE <<>>

\* the entries the loop turns into events: the complete ones before the first
\* null entry
EmittedEntries(chunk) ==
    LET entries == ToolCallEntries(chunk)
        nulls == {k \in 1..Len(entries) : IsNull(entries[k])}
        upto == IF nulls = {} THEN Len(entries)
                ELSE (CHOOSE k \in nulls : \A j \in nulls : k <= j) - 1
    IN SelectSeq(SubSeq(entries, 1, upto), IsCompleteToolCall)

\* position of an event type in the order of one chunk's events
EventRank(type) ==
    CASE type = "stream-start" -> 0
      [] type = "text" -> 1
      [] type = "tool-call" -> 2
      [] OTHER -> 3

OfType(events, type) == SelectSeq(events, LAMBDA e : e.type = type)

\* C19: the stream's output is the events of the first chunk, then those of
\* the second, and so on, each event once; within one chunk text comes before
\* the tool-call events, which follow the listed order of the delta's
\* tool-call entries, and finish comes last.
C19_OutputOrder ==
    /\ Len(emitted) = Len(received)
    /\ output = Flatten(emitted)
    /\ \A i \in 1..Len(received) :
          LET events == emitted[i]
              toolCalls == OfType(events, "tool-call")
              entries == EmittedEntries(received[i])
          IN /\ \A a, b \in 1..Len(events) :
                    a < b => EventRank(events[a].type) <= EventRank(events[b].type)
             /\ Len(OfType(events, "text")) <= 1
             /\ Len(OfType(events, "finish")) <= 1
             /\ Len(toolCalls) = Len(entries)
             /\ \A k \in 1..Len(entries) :
                    /\ toolCalls[k].toolCallId = entries[k].id
                    /\ toolCalls[k].toolName = entries[k].function.name
                    /\ toolCalls[k].args = entries[k].function.arguments

C19_Witness ==
    /\ Len(received) = 2
    /\ received[1] = TextChunk
    /\ received[2] = FullChunk
    /\ Len(output) = 6
    /\ output[2].type = "text"
    /\ output[3].type = "text"
    /\ output[4].toolCallId = "c1"
    /\ output[5].toolCallId = "c2"
    /\ output[6].type = "finish"

\* C20 as claimed: every raw chunk yields at most two output events, whatever
\* it holds and wherever it stands in the sequence.
C20_AtMostTwoEvents ==
    \A i \in 1..Len(received) : Len(emitted[i]) <= 2

\* C20 amended: a raw chunk yields at most one text event, one event per
\* tool-call entry of its delta and one finish or error event, and the first
\* chunk one stream-start more.
C20_EventsPerChunk ==
    \A i \in 1..Len(received) :
        Len(emitted[i]) <=
            2 + Len(ToolCallEntries(received[i])) + (IF i = 1 THEN 1 ELSE 0)

C20_Witness ==
    /\ Len(received) = 2
    /\ received[1] = TextFinishChunk
    /\ Len(emitted[1]) = 3
    /\ received[2] = FullChunk
    /\ Len(emitted[2]) = 4

\* C13: with the steps of several generate and stream calls on one instance
\* interleaved in any way, each call's body and warning list are those the
\* request builder gives for that call's options alone (so equal options give
\* equal bodies, and no warning crosses over from another call), and each
\* stream emits what its own chunks give with its own first-chunk flag: one
\* stream-start, at its own first chunk, carrying its own warnings.
C13_CallsIndependent ==
    /\ \A c \in 1..Len(invocations) :
          LET call == invocations[c]
              alone == getArgs(self, call.options)
          IN /\ call.args = alone.args
             /\ call.warnings = alone.warnings
             /\ call.outcome.kind = "returned" => call.outcome.value.warnings = alone.warnings
             /\ Len(call.emitted) = Len(call.received)
             /\ \A k \in 1..Len(call.received) :
                    call.emitted[k] = TransformOutput(call.received[k], k = 1, alone.warnings)
             /\ Len(OfType(Flatten(call.emitted), "stream-start"))
                    = (IF Len(call.received) > 0 THEN 1 ELSE 0)
    /\ \A c, d \in 1..Len(invocations) :
          invocations[c].options = invocations[d].options =>
              invocations[c].args = invocations[d].args

C13_Witness ==
    /\ Len(invocations) = 2
    /\ invocations[1].op = "stream" /\ invocations[2].op = "stream"
    /\ invocations[1].warnings = <<FileWarning>>
    /\ invocations[2].warnings = <<>>
    /\ Len(invocations[1].received) = 2 /\ Len(invocations[2].received) = 2
    /\ invocations[1].emitted[1][1] = StreamStartEvent(<<FileWarning>>)
    /\ invocations[2].emitted[1][1] = StreamStartEvent(<<>>)

\* what the claim gives as the condition for an agent model
AgentRequested ==
    LET settings == IF Len(factory.argument) = 0 THEN EmptyObj ELSE factory.argument[1]
    IN \/ factory.modelId \in {"amp-code", "amp-reasoning"}
       \/ DOMAIN settings \cap {"cwd", "toolbox", "dangerouslyAllowAll"} # {}
       \/ \E f \in {"cwd", "toolbox"} :
             f \in DOMAIN factory.options /\ factory.options[f] # ""
       \/ ("dangerouslyAllowAll" \in DOMAIN factory.options
             /\ factory.options.dangerouslyAllowAll = TRUE)

RoutedAsRequested ==
    /\ factory.result.value.class =
           (IF AgentRequested THEN "AmpAgentLanguageModel" ELSE "AmpChatLanguageModel")
    /\ factory.result.value.modelId = factory.modelId
    /\ factory.result.value.provider = "amp"

\* C17 as claimed: the factory returns an agent model exactly when the model
\* id is amp-code or amp-reasoning, or the settings object has a cwd, toolbox
\* or dangerouslyAllowAll key, or the provider options have a truthy one, and
\* a chat model otherwise, with the requested modelId and provider amp; with
\* the settings left out or empty it never throws.
C17_RoutingNeverThrows ==
    factory.pc # "created" =>
        /\ factory.argument \in {<<>>, <<EmptyObj>>} => factory.pc # "threw"
        /\ factory.pc # "threw" => RoutedAsRequested

\* C17 amended: the same routing, modelId and provider whenever the factory
\* returns; the factory throws exactly when an agent model is asked for and
\* no API key is at hand (neither the provider option nor AMP_API_KEY), so
\* with a key at hand, or for a chat model, it never throws.
C17_RoutingThrowsWithoutKey ==
    factory.pc # "created" =>
        /\ factory.pc = "threw" <=>
              (/\ AgentRequested
               /\ "apiKey" \notin DOMAIN factory.options
               /\ factory.env = <<>>)
        /\ factory.pc # "threw" => RoutedAsRequested

C17_Witness ==
    /\ factory.pc = "made"
    /\ factory.modelId = "amp-chat"
    /\ factory.argument = <<[dangerouslyAllowAll |-> FALSE]>>
    /\ factory.env = <<>>
    /\ "apiKey" \in DOMAIN factory.options
    /\ factory.result.value.class = "AmpAgentLanguageModel"
    /\ factory.result.value.modelId = "amp-chat"

\* what a reader has been handed when the stream is read to its end
ReadToEnd ==
    LET delivered == factory.stream.delivered
        last == delivered[Len(delivered)]
    IN /\ Len(delivered) >= 2
       /\ \A i \in 1..(Len(delivered) - 1) : delivered[i].type = "text-delta"
       /\ last.type = "finish"
       /\ last.finishReason = "stop"
       /\ DOMAIN last.usage = {"promptTokens", "completionTokens"}
       /\ factory.stream.queue = <<>> /\ factory.stream.closed

\* C18: a stream of a model the factory created hands its reader text-delta,
\* finish or error events only; for the agent model the first of them is the
\* text-delta with the AGENT MODE text; a reader that keeps reading reaches
\* done, having been handed one text-delta or more and then one finish
\* (stop, usage with promptTokens and completionTokens) as the last event
\* before the stream closed.
C18_MockStreamCompletes ==
    /\ [](\A i \in 1..Len(factory.stream.delivered) :
             factory.stream.delivered[i].type \in {"text-delta", "finish", "error"})
    /\ []((factory.pc = "streaming" /\ Len(factory.stream.delivered) > 0
             /\ factory.result.value.class = "AmpAgentLanguageModel") =>
                factory.stream.delivered[1] =
                    TextDelta("[AGENT MODE] Mock streaming agent response..."))
    /\ [](factory.stream.done => ReadToEnd)
    /\ (factory.pc = "streaming") ~> (factory.stream.done /\ ReadToEnd)

C18_Witness ==
    /\ factory.pc = "streaming"
    /\ factory.result.value.class = "AmpAgentLanguageModel"
    /\ factory.stream.done
    /\ Len(factory.stream.delivered) = 3
    /\ factory.stream.delivered[3] = MockFinish(20, 30)

\* a raw chunk JSON.parse accepts and that is an object
ParsedObject(chunk) ==
    chunk # DoneChunk /\ ~JSONParse(chunk).threw /\ ~IsNull(JSONParse(chunk).value)

\* C21 as claimed: a parsed chunk that carries a finish reason yields exactly
\* one finish event with the mapped reason, with or without a delta object
\* in the chunk; the event's usage is the chunk's usage, mapped, when the
\* chunk carries one, and is left out otherwise.
C21_FinishForEveryFinishReason ==
    \A i \in 1..Len(received) :
        (ParsedObject(received[i]) /\ HasFinishReason(JSONParse(received[i]).value)) =>
            LET data == JSONParse(received[i]).value
                finish == OfType(emitted[i], "finish")
            IN /\ Len(finish) = 1
               /\ finish[1].finishReason = mapFinishReason(data.choices[1].finish_reason)
               /\ IF "usage" \in DOMAIN data
                  THEN "usage" \in DOMAIN finish[1] /\ finish[1].usage = MapUsage(data.usage)
                  ELSE "usage" \notin DOMAIN finish[1]

\* C22 as claimed: a parsed chunk whose delta has a content field yields
\* exactly one text event with that string, the empty string included.
C22_TextForEveryContent ==
    \A i \in 1..Len(received) :
        (/\ ParsedObject(received[i])
         /\ HasDelta(JSONParse(received[i]).value)
         /\ "content" \in DOMAIN JSONParse(received[i]).value.choices[1].delta) =>
            LET text == OfType(emitted[i], "text")
            IN /\ Len(text) = 1
               /\ text[1].text = JSONParse(received[i]).value.choices[1].delta.content

\* C23 as claimed: the stream's output holds at most one finish event, and
\* no text, tool-call or finish event comes after a finish event.
C23_FinishTerminal ==
    /\ Len(OfType(output, "finish")) <= 1
    /\ \A a, b \in 1..Len(output) :
          (a < b /\ output[a].type = "finish") =>
              output[b].type \notin {"text", "tool-call", "finish"}

\* C28 as claimed: the events of one raw chunk never hold an error event
\* together with a text, tool-call or finish event.
C28_ErrorExcludesContent ==
    \A i \in 1..Len(received) :
        Len(OfType(emitted[i], "error")) > 0 =>
            \A k \in 1..Len(emitted[i]) :
                emitted[i][k].type \notin {"text", "tool-call", "finish"}

\* C24 as claimed (agent adapter): once the consumer has cancelled the
\* returned stream or aborted the call's signal, the adapter reads no further
\* message from the execution and produces no further event.
C24_CancelStopsReading ==
    (agent.pc # "none" /\ (agent.cancelled \/ agent.aborted)) =>
        /\ Len(agent.read) = agent.mark.read
        /\ Len(agent.output) = agent.mark.output

\* the execution messages the stream forwards, in arrival order
Forwarded == SelectSeq(agent.read, LAMBDA m : m.type \in {"text", "result"})

\* C25: the agent stream's events are one stream-start, then one text event
\* per text or result message of the execution in arrival order and nothing
\* for other messages, then, once the execution is over, exactly one last
\* event after which the stream is closed: finish with reason stop when the
\* execution ended, error when reading it failed.
C25_AgentStreamShape ==
    (agent.pc # "none" /\ agent.op = "stream") =>
        LET out == agent.output
            last == out[Len(out)]
        IN /\ Len(out) >= 1 + Len(Forwarded)
           /\ out[1].type = "stream-start"
           /\ \A k \in 1..Len(Forwarded) :
                 /\ out[1 + k].type = "text"
                 /\ out[1 + k].text = (IF Forwarded[k].type = "text"
                                       THEN Forwarded[k].content ELSE Forwarded[k].result)
           /\ agent.ending = "none" => Len(out) = 1 + Len(Forwarded) /\ ~agent.closed
           /\ agent.ending # "none" => Len(out) = 2 + Len(Forwarded) /\ agent.closed
           /\ agent.ending = "ended" => last.type = "finish" /\ last.finishReason = "stop"
           /\ agent.ending = "failed" => last.type = "error"

C25_Witness ==
    /\ agent.pc = "closed"
    /\ agent.op = "stream"
    /\ agent.read = <<[type |-> "text", content |-> "Hi"], [type |-> "tool_use"],
                      [type |-> "result", result |-> "Done"]>>
    /\ agent.ending = "ended"
    /\ Len(agent.output) = 4
    /\ agent.output[3].text = "Done"
    /\ agent.output[4].type = "finish"

\* the text of the text events of the agent stream, concatenated
StreamedText ==
    LET texts == OfType(agent.output, "text")
    IN Join([k \in 1..Len(texts) |-> texts[k].text], "")

\* C26 as claimed: the usage generate returns, and the usage of the stream's
\* finish event, have inputTokens = length of the flattened prompt,
\* outputTokens = length of the output text handed to the caller, and
\* totalTokens = their sum.
C26_AgentUsage ==
    /\ (agent.pc # "none" /\ agent.op = "generate" /\ agent.outcome.kind = "returned") =>
          LET usage == agent.outcome.value.usage
          IN /\ usage.inputTokens = Len(agent.flat)
             /\ usage.outputTokens = Len(agent.outcome.value.content[1].text)
             /\ usage.totalTokens = usage.inputTokens + usage.outputTokens
    /\ (agent.pc # "none" /\ agent.op = "stream" /\ Len(OfType(agent.output, "finish")) > 0) =>
          LET usage == OfType(agent.output, "finish")[1].usage
          IN /\ usage.inputTokens = Len(agent.flat)
             /\ usage.outputTokens = Len(StreamedText)
             /\ usage.totalTokens = usage.inputTokens + usage.outputTokens

\* C27 as claimed: an agent call whose prompt holds a message of unknown
\* role fails: neither generate nor stream returns to its caller.
C27_AgentUnknownRoleFails ==
    (agent.pc \notin {"none", "idle"} /\ UnknownRoleIndexes(agent.prompt) # {}) =>
        agent.outcome.kind # "returned"

\* C29 as claimed: when the execution has ended, the text events of the
\* stream concatenate to the text generate returns for the same messages.
C29_StreamAgreesWithGenerate ==
    (agent.pc # "none" /\ agent.op = "stream" /\ agent.ending = "ended") =>
        StreamedText = finalText(agent.read)


\* C30: in the factory-created agent model's stream no enqueue or close is
\* attempted after the stream was closed or cancelled, whatever the order of
\* the timer callback and the consumer's reads and cancel
C30_NoUseAfterClose ==
    factory.pc = "streaming" => ~factory.stream.misuse

====
